---- MODULE Spec2Model ----
(***************************************************************************)
(* The Forest of src/src/forest.rs: a struct-of-arrays arena holding the   *)
(* node records and, per node, the list of its children and the list of    *)
(* its parents.  Identities are 0-based indexes (NodeId = usize); a        *)
(* sequence s of the model holds the element of identity i at s[i + 1].    *)
(* The pure functions of src/src/style.rs on FlexDirection and             *)
(* FlexboxLayout are operators, applied by the actions of SpecStyle.       *)
(***************************************************************************)
EXTENDS Integers, Sequences, FiniteSets, TLC

\* ------------------------------------------------------------------ bounds
\* Spec: every operation, on forests of at most MaxNodes nodes holding at most
\* MaxEdges child entries.
MaxNodes == 2
MaxEdges == 2
\* The longest child list handed to new_with_children.
MaxKids == 2
\* SpecBuild: forests that are built, laid out and invalidated, never pruned.
BuildNodes == 3
BuildEdges == 3
\* SpecCompaction: forests that are built and compacted, never laid out.
CompactNodes == 4
CompactEdges == 3
\* SpecCreate: forests built bottom up by the creating operations alone.
CreateNodes == 4
CreateEdges == 3
\* SpecDirty: forests built bottom up, laid out and invalidated.
DirtyNodes == 3
DirtyEdges == 3
\* SpecTopology: forests that are built, unlinked, compacted and cleared, never
\* laid out.
TopoNodes == 3
TopoEdges == 2
\* SpecStyle: the numbers Dimension::Points and Dimension::Percent hold are
\* 1..MaxPoints.
MaxPoints == 1
\* The forests on which edges are removed one by one.
UnlinkNodes == 3
UnlinkEdges == 3
\* The forests a bottom-up layout pass cleans.
LayoutNodes == 3
LayoutEdges == 2
\* The forests built without add_child.
PlainNodes == 3
PlainEdges == 2

\* --------------------------------------------------------- value domains
\* Option<T>: None is the empty sequence, Some(x) the one-element sequence.
None == << >>
Some(x) == << x >>

\* Layout::new(), the layout result of a node that was never laid out.
LayoutNew == "Layout::new"
\* A layout result written by the layout algorithm.
LayoutDone == "computed"
\* The styles and measure functions callers supply.
Styles == {"style"}
MeasureFuncs == {"measure"}
\* The cache payloads the layout algorithm stores.
CacheVals == {"cache"}

\* nodes, children, parents: the three fields of the Forest.
\* live: the number of nodes created minus the number removed by swap_remove
\* since the forest was last empty by construction or by clear.
\* call: the arguments of a call of a function of style.rs, the function
\* called and the value it returned.
VARIABLES nodes, children, parents, live, call
vars == << nodes, children, parents, live, call >>

\* ------------------------------------------------------------ Vec helpers
\* Vec indexing v[i]
At(v, i) == v[i + 1]
\* Vec::push
Push(v, x) == Append(v, x)
\* Vec::swap_remove(i), i < len: the last element takes slot i, then pop.
VecSwapRemove(v, i) ==
    [k \in 1..(Len(v) - 1) |-> IF k = i + 1 THEN v[Len(v)] ELSE v[k]]
\* Vec::remove(i), i < len: later elements shift down.
VecRemove(v, i) ==
    [k \in 1..(Len(v) - 1) |-> IF k <= i THEN v[k] ELSE v[k + 1]]
\* Vec::retain(|p| *p != x)
VecRetainNe(v, x) == SelectSeq(v, LAMBDA p : p # x)
\* iter().position(|n| *n == x)
VecPosition(v, x) ==
    IF \E k \in 1..Len(v) : v[k] = x
    THEN Some((CHOOSE k \in 1..Len(v) :
                  v[k] = x /\ \A j \in 1..(k - 1) : v[j] # x) - 1)
    ELSE None

\* ------------------------------------------------------------- NodeData
NodeData_new_with_measure(style, measure) ==
    [style |-> style, measure |-> Some(measure),
     main_size_layout_cache |-> None, other_layout_cache |-> None,
     layout |-> LayoutNew, is_dirty |-> TRUE]

\* A record that starts clean.
NodeData_new_clean(style) ==
    [style |-> style, measure |-> None,
     main_size_layout_cache |-> None, other_layout_cache |-> None,
     layout |-> LayoutNew, is_dirty |-> FALSE]

NodeData_new(style) ==
    [style |-> style, measure |-> None,
     main_size_layout_cache |-> None, other_layout_cache |-> None,
     layout |-> LayoutNew, is_dirty |-> TRUE]

\* A mark_dirty that leaves the secondary cache in place.
NodeData_mark_dirty_keeps_other(n) ==
    [n EXCEPT !.main_size_layout_cache = None, !.is_dirty = TRUE]

\* A mark_dirty that also resets the layout result.
NodeData_mark_dirty_resets_layout(n) ==
    [n EXCEPT !.main_size_layout_cache = None,
              !.other_layout_cache = None,
              !.layout = LayoutNew,
              !.is_dirty = TRUE]

\* A mark_dirty that moves the secondary cache into the primary slot.
NodeData_mark_dirty_shifts_cache(n) ==
    [n EXCEPT !.main_size_layout_cache = n.other_layout_cache,
              !.other_layout_cache = None,
              !.is_dirty = TRUE]

\* A mark_dirty that flips the dirty flag.
NodeData_mark_dirty_toggles(n) ==
    [n EXCEPT !.main_size_layout_cache = None,
              !.other_layout_cache = None,
              !.is_dirty = ~n.is_dirty]

NodeData_mark_dirty(n) ==
    [n EXCEPT !.main_size_layout_cache = None,
              !.other_layout_cache = None,
              !.is_dirty = TRUE]

\* --------------------------------------------------------------- Forest
\* A forest value and the result of a call: the forest the call leaves, its
\* return value and how it ended ("ok", "panic": an index out of bounds or an
\* unwrap of None, "overflow": unbounded recursion).
Forest(ns, cs, ps) == [nodes |-> ns, children |-> cs, parents |-> ps]
Result(ns, cs, ps, ret, st) ==
    [nodes |-> ns, children |-> cs, parents |-> ps, ret |-> ret, st |-> st]

\* with_capacity: the forest of three empty sequences.
with_capacity == Forest(<< >>, << >>, << >>)

\* mark_dirty_recursive: marks node_id, then recurses into each of its parents
\* in list order.  depth is the number of frames on the call stack; a stack
\* deeper than the number of nodes repeats a node, and the recursion from a
\* repeated node never returns.
RECURSIVE mark_dirty_recursive(_, _, _, _)
RECURSIVE mark_dirty_parents(_, _, _, _, _)
\* A walk that follows only the first parent of each node.
mark_dirty_first_parent(ns, ps, plist, i, depth) ==
    IF Len(plist) = 0 THEN [nodes |-> ns, st |-> "ok"]
    ELSE mark_dirty_recursive(ns, ps, plist[1], depth + 1)

\* A loop that never moves on from the parent it is at: each round goes one
\* frame deeper.
mark_dirty_parents_stays(ns, ps, plist, i, depth) ==
    IF i > Len(plist) THEN [nodes |-> ns, st |-> "ok"]
    ELSE LET r == mark_dirty_recursive(ns, ps, plist[i], depth + 1)
         IN  IF r.st # "ok" THEN r
             ELSE mark_dirty_parents(r.nodes, ps, plist, i, depth + 1)

mark_dirty_parents(ns, ps, plist, i, depth) ==
    IF i > Len(plist) THEN [nodes |-> ns, st |-> "ok"]
    ELSE LET r == mark_dirty_recursive(ns, ps, plist[i], depth + 1)
         IN  IF r.st # "ok" THEN r
             ELSE mark_dirty_parents(r.nodes, ps, plist, i + 1, depth)

mark_dirty_recursive(ns, ps, node_id, depth) ==
    IF depth > Len(ns) + 1 THEN [nodes |-> ns, st |-> "overflow"]
    ELSE IF node_id >= Len(ns) THEN [nodes |-> ns, st |-> "panic"]
    ELSE LET ns1 == [ns EXCEPT ![node_id + 1] = NodeData_mark_dirty(@)]
         IN  IF node_id >= Len(ps) THEN [nodes |-> ns1, st |-> "panic"]
             ELSE mark_dirty_parents(ns1, ps, At(ps, node_id), 1, depth)

mark_dirty(f, node) ==
    LET r == mark_dirty_recursive(f.nodes, f.parents, node, 1)
    IN  Result(r.nodes, f.children, f.parents, None, r.st)

\* new_leaf: push a fresh record and two empty adjacency lists.
new_leaf(f, layout) ==
    LET id == Len(f.nodes)
    IN  Result(Push(f.nodes, NodeData_new(layout)),
               Push(f.children, << >>),
               Push(f.parents, << >>), id, "ok")

new_leaf_with_measure(f, layout, measure) ==
    LET id == Len(f.nodes)
    IN  Result(Push(f.nodes, NodeData_new_with_measure(layout, measure)),
               Push(f.children, << >>),
               Push(f.parents, << >>), id, "ok")

\* The loop of new_with_children: push id on the parent list of each child,
\* in order; an unknown child panics with the earlier pushes done.
RECURSIVE push_parent_each(_, _, _, _)
\* A loop that makes id the only parent of each child.
push_parent_each_replaces(ps, kids, i, id) ==
    IF i > Len(kids) THEN [parents |-> ps, st |-> "ok"]
    ELSE IF kids[i] >= Len(ps) THEN [parents |-> ps, st |-> "panic"]
    ELSE push_parent_each([ps EXCEPT ![kids[i] + 1] = << id >>],
                          kids, i + 1, id)

push_parent_each(ps, kids, i, id) ==
    IF i > Len(kids) THEN [parents |-> ps, st |-> "ok"]
    ELSE IF kids[i] >= Len(ps) THEN [parents |-> ps, st |-> "panic"]
    ELSE push_parent_each([ps EXCEPT ![kids[i] + 1] = Push(@, id)],
                          kids, i + 1, id)

new_with_children(f, layout, kids) ==
    LET id == Len(f.nodes)
        r  == push_parent_each(f.parents, kids, 1, id)
    IN  IF r.st # "ok"
        THEN Result(f.nodes, f.children, r.parents, None, "panic")
        ELSE Result(Push(f.nodes, NodeData_new(layout)),
                    Push(f.children, kids),
                    Push(r.parents, << >>), id, "ok")

\* An add_child that returns without linking when the edge is already there.
add_child_rejects_duplicate(f, parent, child) ==
    IF child >= Len(f.parents)
    THEN Result(f.nodes, f.children, f.parents, None, "panic")
    ELSE LET ps1 == [f.parents EXCEPT ![child + 1] = Push(@, parent)]
         IN  IF parent >= Len(f.children)
             THEN Result(f.nodes, f.children, ps1, None, "panic")
             ELSE IF \E k \in 1..Len(At(f.children, parent)) :
                        At(f.children, parent)[k] = child
             THEN Result(f.nodes, f.children, f.parents, None, "ok")
             ELSE mark_dirty(
                     Forest(f.nodes,
                            [f.children EXCEPT ![parent + 1] = Push(@, child)],
                            ps1),
                     parent)

\* An add_child that refuses, before it writes, to make a node its own child.
add_child_rejects_self(f, parent, child) ==
    IF parent = child
    THEN Result(f.nodes, f.children, f.parents, None, "panic")
    ELSE IF child >= Len(f.parents)
    THEN Result(f.nodes, f.children, f.parents, None, "panic")
    ELSE LET ps1 == [f.parents EXCEPT ![child + 1] = Push(@, parent)]
         IN  IF parent >= Len(f.children)
             THEN Result(f.nodes, f.children, ps1, None, "panic")
             ELSE mark_dirty(
                     Forest(f.nodes,
                            [f.children EXCEPT ![parent + 1] = Push(@, child)],
                            ps1),
                     parent)

add_child(f, parent, child) ==
    IF child >= Len(f.parents)
    THEN Result(f.nodes, f.children, f.parents, None, "panic")
    ELSE LET ps1 == [f.parents EXCEPT ![child + 1] = Push(@, parent)]
         IN  IF parent >= Len(f.children)
             THEN Result(f.nodes, f.children, ps1, None, "panic")
             ELSE mark_dirty(
                     Forest(f.nodes,
                            [f.children EXCEPT ![parent + 1] = Push(@, child)],
                            ps1),
                     parent)

\* A clear that leaves the parent lists in place.
clear_keeps_parents(f) == Result(<< >>, << >>, f.parents, None, "ok")

clear(f) == Result(<< >>, << >>, << >>, None, "ok")

\* The inner while loop of swap_remove: strike every occurrence of node from
\* v, each by Vec::swap_remove at its position.
RECURSIVE strike_all(_, _, _)
strike_all(v, node, pos) ==
    IF pos >= Len(v) THEN v
    ELSE IF At(v, pos) = node THEN strike_all(VecSwapRemove(v, pos), node, pos)
    ELSE strike_all(v, node, pos + 1)

\* A renaming that rewrites nothing.
rename_none(v, last, node) == v

\* The inner for loop of swap_remove's renaming: every entry last becomes node.
rename_all(v, last, node) ==
    [k \in 1..Len(v) |-> IF v[k] = last THEN node ELSE v[k]]

\* One outer for loop of swap_remove: for each identity in list, in order,
\* rewrite the adjacency list adj[identity]; strike = TRUE strikes node from
\* it, strike = FALSE renames last to node in it.  An identity that is not an
\* index of adj panics with the earlier rewrites done.
RECURSIVE rewrite_each(_, _, _, _, _, _)
rewrite_each(adj, list, i, strike, last, node) ==
    IF i > Len(list) THEN [adj |-> adj, st |-> "ok"]
    ELSE IF list[i] >= Len(adj) THEN [adj |-> adj, st |-> "panic"]
    ELSE rewrite_each(
            [adj EXCEPT ![list[i] + 1] =
                IF strike THEN strike_all(@, node, 0)
                ELSE rename_all(@, last, node)],
            list, i + 1, strike, last, node)

\* swap_remove, "Remove old node as parent from all its children" and
\* "Remove old node as child from all its parents": the two striking loops.
swap_remove_strike(cs, ps, node) ==
    LET r1 == rewrite_each(ps, At(cs, node), 1, TRUE, 0, node)
    IN  IF r1.st # "ok"
        THEN [children |-> cs, parents |-> r1.adj, st |-> "panic"]
        ELSE LET r2 == rewrite_each(cs, At(r1.adj, node), 1, TRUE, 0, node)
             IN  [children |-> r2.adj, parents |-> r1.adj, st |-> r2.st]

\* A relocation that returns the slot the node moved to, not the identity it
\* had.
swap_remove_relocate_returns_node(ns1, cs, ps, node) ==
    LET last == Len(ns1)
    IN
    IF last # node
    THEN
        LET r3 == rewrite_each(ps, At(cs, last), 1, FALSE, last, node)
        IN
        IF r3.st # "ok" THEN Result(ns1, cs, r3.adj, None, "panic")
        ELSE
        LET r4 == rewrite_each(cs, At(r3.adj, last), 1, FALSE, last, node)
        IN
        IF r4.st # "ok" THEN Result(ns1, r4.adj, r3.adj, None, "panic")
        ELSE Result(ns1, VecSwapRemove(r4.adj, node),
                    VecSwapRemove(r3.adj, node), Some(node), "ok")
    ELSE Result(ns1, VecSwapRemove(cs, node),
                VecSwapRemove(ps, node), None, "ok")

\* A relocation that, when the removed node was the last one, leaves its slot
\* in the parents sequence.
swap_remove_relocate_keeps_parents(ns1, cs, ps, node) ==
    LET last == Len(ns1)
    IN
    IF last # node
    THEN
        LET r3 == rewrite_each(ps, At(cs, last), 1, FALSE, last, node)
        IN
        IF r3.st # "ok" THEN Result(ns1, cs, r3.adj, None, "panic")
        ELSE
        LET r4 == rewrite_each(cs, At(r3.adj, last), 1, FALSE, last, node)
        IN
        IF r4.st # "ok" THEN Result(ns1, r4.adj, r3.adj, None, "panic")
        ELSE Result(ns1, VecSwapRemove(r4.adj, node),
                    VecSwapRemove(r3.adj, node), Some(last), "ok")
    ELSE Result(ns1, VecSwapRemove(cs, node), ps, None, "ok")

\* swap_remove from "let last = self.nodes.len()": rename the swapped in node
\* in the lists of its children and parents, drop slot node from both
\* adjacency sequences, and return the identity that moved.
swap_remove_relocate(ns1, cs, ps, node) ==
    LET last == Len(ns1)
    IN
    IF last # node
    THEN
        LET r3 == rewrite_each(ps, At(cs, last), 1, FALSE, last, node)
        IN
        IF r3.st # "ok" THEN Result(ns1, cs, r3.adj, None, "panic")
        ELSE
        LET r4 == rewrite_each(cs, At(r3.adj, last), 1, FALSE, last, node)
        IN
        IF r4.st # "ok" THEN Result(ns1, r4.adj, r3.adj, None, "panic")
        ELSE Result(ns1, VecSwapRemove(r4.adj, node),
                    VecSwapRemove(r3.adj, node), Some(last), "ok")
    ELSE Result(ns1, VecSwapRemove(cs, node),
                VecSwapRemove(ps, node), None, "ok")

swap_remove(f, node) ==
    IF node >= Len(f.nodes)
    THEN Result(f.nodes, f.children, f.parents, None, "panic")
    ELSE
    LET ns1 == VecSwapRemove(f.nodes, node)
    IN
    IF ns1 = << >> THEN Result(ns1, << >>, << >>, None, "ok")
    ELSE
    LET s == swap_remove_strike(f.children, f.parents, node)
    IN  IF s.st # "ok" THEN Result(ns1, s.children, s.parents, None, "panic")
        ELSE swap_remove_relocate(ns1, s.children, s.parents, node)

\* A removal that takes the last child when the index is past the end.
remove_child_at_index_clamps(f, parent, child_index) ==
    IF parent >= Len(f.children) \/ Len(At(f.children, parent)) = 0
    THEN Result(f.nodes, f.children, f.parents, None, "panic")
    ELSE
    LET index == IF child_index >= Len(At(f.children, parent))
                 THEN Len(At(f.children, parent)) - 1 ELSE child_index
        child == At(At(f.children, parent), index)
        cs1   == [f.children EXCEPT ![parent + 1] = VecRemove(@, index)]
    IN
    IF child >= Len(f.parents)
    THEN Result(f.nodes, cs1, f.parents, None, "panic")
    ELSE
    LET ps1 == [f.parents EXCEPT ![child + 1] = VecRetainNe(@, parent)]
        r   == mark_dirty(Forest(f.nodes, cs1, ps1), parent)
    IN  Result(r.nodes, r.children, r.parents,
               IF r.st = "ok" THEN child ELSE None, r.st)

remove_child_at_index(f, parent, child_index) ==
    IF parent >= Len(f.children)
       \/ child_index >= Len(At(f.children, parent))
    THEN Result(f.nodes, f.children, f.parents, None, "panic")
    ELSE
    LET child == At(At(f.children, parent), child_index)
        cs1   == [f.children EXCEPT ![parent + 1] = VecRemove(@, child_index)]
    IN
    IF child >= Len(f.parents)
    THEN Result(f.nodes, cs1, f.parents, None, "panic")
    ELSE
    LET ps1 == [f.parents EXCEPT ![child + 1] = VecRetainNe(@, parent)]
        r   == mark_dirty(Forest(f.nodes, cs1, ps1), parent)
    IN  Result(r.nodes, r.children, r.parents,
               IF r.st = "ok" THEN child ELSE None, r.st)

\* A remove_child that returns without a word when the parent does not list
\* the child.
remove_child_ignores_missing(f, parent, child) ==
    IF parent >= Len(f.children)
    THEN Result(f.nodes, f.children, f.parents, None, "panic")
    ELSE
    LET index == VecPosition(At(f.children, parent), child)
    IN  IF index = None
        THEN Result(f.nodes, f.children, f.parents, child, "ok")
        ELSE remove_child_at_index(f, parent, index[1])

\* A remove_child that removes the last occurrence of the child.
remove_child_last_match(f, parent, child) ==
    IF parent >= Len(f.children)
    THEN Result(f.nodes, f.children, f.parents, None, "panic")
    ELSE
    LET v == At(f.children, parent)
        hits == {i \in 0..(Len(v) - 1) : At(v, i) = child}
    IN  IF hits = {}
        THEN Result(f.nodes, f.children, f.parents, None, "panic")
        ELSE remove_child_at_index(
                f, parent, CHOOSE i \in hits : \A j \in hits : j <= i)

remove_child(f, parent, child) ==
    IF parent >= Len(f.children)
    THEN Result(f.nodes, f.children, f.parents, None, "panic")
    ELSE
    LET index == VecPosition(At(f.children, parent), child)
    IN  IF index = None
        THEN Result(f.nodes, f.children, f.parents, None, "panic")
        ELSE remove_child_at_index(f, parent, index[1])

\* The layout algorithm's write-back through the record's public fields: it
\* stores the node's layout result and its caches, and clears is_dirty.
layout_write_back(f, node, main, other) ==
    IF node >= Len(f.nodes)
    THEN Result(f.nodes, f.children, f.parents, None, "panic")
    ELSE Result([f.nodes EXCEPT ![node + 1] =
                    [@ EXCEPT !.layout = LayoutDone,
                              !.main_size_layout_cache = main,
                              !.other_layout_cache = other,
                              !.is_dirty = FALSE]],
                f.children, f.parents, None, "ok")

\* -------------------------------------------------------------- style.rs
\* The enums: a value is the pair of its enum and its variant.
AlignItems ==
    {<< "AlignItems", v >> :
        v \in {"FlexStart", "FlexEnd", "Center", "Baseline", "Stretch"}}
AlignSelf ==
    {<< "AlignSelf", v >> :
        v \in {"Auto", "FlexStart", "FlexEnd", "Center", "Baseline", "Stretch"}}
FlexDirection ==
    {<< "FlexDirection", v >> :
        v \in {"Row", "Column", "RowReverse", "ColumnReverse"}}
\* Dimension: Undefined, Auto, Points of a length and Percent of a ratio.
Undefined == << "Dimension", "Undefined" >>
Auto == << "Dimension", "Auto" >>
Points(p) == << "Dimension", "Points", p >>
Percent(p) == << "Dimension", "Percent", p >>
\* Size<T> and Rect<T>.
Size(width, height) == [width |-> width, height |-> height]
Rect(start, end, top, bottom) ==
    [start |-> start, end |-> end, top |-> top, bottom |-> bottom]

\* FlexboxLayout::default(), with the fields the functions below read.
FlexboxLayout_default ==
    [flex_direction |-> << "FlexDirection", "Row" >>,
     align_items |-> << "AlignItems", "Stretch" >>,
     align_self |-> << "AlignSelf", "Auto" >>,
     margin |-> Rect(Undefined, Undefined, Undefined, Undefined),
     size |-> Size(Auto, Auto),
     min_size |-> Size(Auto, Auto),
     max_size |-> Size(Auto, Auto)]

\* An is_row that knows Row only.
is_row_only_row(direction) == direction = << "FlexDirection", "Row" >>

is_row(direction) ==
    direction \in {<< "FlexDirection", "Row" >>,
                   << "FlexDirection", "RowReverse" >>}

is_column(direction) ==
    direction \in {<< "FlexDirection", "Column" >>,
                   << "FlexDirection", "ColumnReverse" >>}

is_reverse(direction) ==
    direction \in {<< "FlexDirection", "RowReverse" >>,
                   << "FlexDirection", "ColumnReverse" >>}

min_main_size(style, direction) ==
    IF is_row(direction) THEN style.min_size.width ELSE style.min_size.height

max_main_size(style, direction) ==
    IF is_row(direction) THEN style.max_size.width ELSE style.max_size.height

main_margin_start(style, direction) ==
    IF is_row(direction) THEN style.margin.start ELSE style.margin.top

main_margin_end(style, direction) ==
    IF is_row(direction) THEN style.margin.end ELSE style.margin.bottom

cross_size(style, direction) ==
    IF is_row(direction) THEN style.size.height ELSE style.size.width

min_cross_size(style, direction) ==
    IF is_row(direction) THEN style.min_size.height ELSE style.min_size.width

max_cross_size(style, direction) ==
    IF is_row(direction) THEN style.max_size.height ELSE style.max_size.width

cross_margin_start(style, direction) ==
    IF is_row(direction) THEN style.margin.top ELSE style.margin.start

cross_margin_end(style, direction) ==
    IF is_row(direction) THEN style.margin.bottom ELSE style.margin.end

\* An align_self that hands back the node's own value, Auto included.
align_self_keeps_auto(style, parent) == style.align_self

align_self(style, parent) ==
    IF style.align_self = << "AlignSelf", "Auto" >>
    THEN CASE parent.align_items = << "AlignItems", "FlexStart" >>
                -> << "AlignSelf", "FlexStart" >>
           [] parent.align_items = << "AlignItems", "FlexEnd" >>
                -> << "AlignSelf", "FlexEnd" >>
           [] parent.align_items = << "AlignItems", "Center" >>
                -> << "AlignSelf", "Center" >>
           [] parent.align_items = << "AlignItems", "Baseline" >>
                -> << "AlignSelf", "Baseline" >>
           [] parent.align_items = << "AlignItems", "Stretch" >>
                -> << "AlignSelf", "Stretch" >>
    ELSE style.align_self

\* ------------------------------------------------------------ the machine
\* The forest the variables hold.
Cur == Forest(nodes, children, parents)

\* Identities callers pass: every live identity and unknown ones.
Ids(maxn) == 0..maxn
\* Child lists callers pass to new_with_children.
KidLists(maxn) == UNION {[1..k -> Ids(maxn)] : k \in 0..MaxKids}
\* Cache pairs the layout algorithm writes.
CachePairs == {Some(c) : c \in CacheVals} \X {Some(c) : c \in CacheVals}

RECURSIVE SumLen(_, _)
SumLen(adj, i) == IF i > Len(adj) THEN 0 ELSE Len(adj[i]) + SumLen(adj, i + 1)
\* The number of child entries stored in the forest.
EdgeCount(f) == SumLen(f.children, 1)

\* No function of style.rs was called.
NoCall == [fn |-> "none"]

\* with_capacity: three empty sequences.
Init ==
    /\ nodes = << >>
    /\ children = << >>
    /\ parents = << >>
    /\ live = 0
    /\ call = NoCall

\* A call that returned: the forest becomes the one the call left.
Returned(r, dlive) ==
    /\ r.st = "ok"
    /\ nodes' = r.nodes
    /\ children' = r.children
    /\ parents' = r.parents
    /\ live' = dlive
    /\ call' = call

NewLeaf(maxn) ==
    \E style \in Styles :
        /\ Len(nodes) < maxn
        /\ Returned(new_leaf(Cur, style), live + 1)

NewLeafWithMeasure(maxn) ==
    \E style \in Styles, m \in MeasureFuncs :
        /\ Len(nodes) < maxn
        /\ Returned(new_leaf_with_measure(Cur, style, m), live + 1)

NewWithChildren(maxn, maxe) ==
    /\ Len(nodes) < maxn
    /\ \E style \in Styles, kids \in KidLists(maxn) :
        /\ EdgeCount(Cur) + Len(kids) <= maxe
        /\ Returned(new_with_children(Cur, style, kids), live + 1)

AddChild(maxn, maxe) ==
    /\ EdgeCount(Cur) < maxe
    /\ \E parent \in Ids(maxn), child \in Ids(maxn) :
        Returned(add_child(Cur, parent, child), live)

Clear == Returned(clear(Cur), 0)

SwapRemove(maxn) ==
    \E node \in Ids(maxn) :
        Returned(swap_remove(Cur, node), live - 1)

RemoveChild(maxn) ==
    \E parent \in Ids(maxn), child \in Ids(maxn) :
        Returned(remove_child(Cur, parent, child), live)

RemoveChildAtIndex(maxn, maxe) ==
    \E parent \in Ids(maxn), child_index \in 0..maxe :
        Returned(remove_child_at_index(Cur, parent, child_index), live)

MarkDirty(maxn) ==
    \E node \in Ids(maxn) :
        Returned(mark_dirty(Cur, node), live)

LayoutWriteBack(maxn) ==
    \E node \in Ids(maxn), pr \in CachePairs :
        Returned(layout_write_back(Cur, node, pr[1], pr[2]), live)

\* A layout pass that works bottom-up: it writes a node back only when every
\* node in its child list is there and clean.
LayoutWriteBackBottomUp(maxn) ==
    \E node \in Ids(maxn), pr \in CachePairs :
        /\ node < Len(nodes)
        /\ \A k \in 1..Len(At(children, node)) :
              /\ At(children, node)[k] < Len(nodes)
              /\ ~At(nodes, At(children, node)[k]).is_dirty
        /\ Returned(layout_write_back(Cur, node, pr[1], pr[2]), live)

\* Every operation of the Forest and the layout algorithm's write-back.
Next ==
    \/ NewLeaf(MaxNodes)
    \/ NewLeafWithMeasure(MaxNodes)
    \/ NewWithChildren(MaxNodes, MaxEdges)
    \/ AddChild(MaxNodes, MaxEdges)
    \/ Clear
    \/ SwapRemove(MaxNodes)
    \/ RemoveChild(MaxNodes)
    \/ RemoveChildAtIndex(MaxNodes, MaxEdges)
    \/ MarkDirty(MaxNodes)
    \/ LayoutWriteBack(MaxNodes)

Spec == Init /\ [][Next]_vars

\* Building, laying out and invalidating a forest.
NextBuild ==
    \/ NewLeaf(BuildNodes)
    \/ NewWithChildren(BuildNodes, BuildEdges)
    \/ AddChild(BuildNodes, BuildEdges)
    \/ MarkDirty(BuildNodes)
    \/ LayoutWriteBack(BuildNodes)

SpecBuild == Init /\ [][NextBuild]_vars

\* Building a forest and removing nodes from it.
NextCompaction ==
    \/ NewLeaf(CompactNodes)
    \/ NewWithChildren(CompactNodes, CompactEdges)
    \/ AddChild(CompactNodes, CompactEdges)
    \/ SwapRemove(CompactNodes)

SpecCompaction == Init /\ [][NextCompaction]_vars

\* Creating nodes, each over the nodes that are there.
NextCreate ==
    \/ NewLeaf(CreateNodes)
    \/ NewLeafWithMeasure(CreateNodes)
    \/ NewWithChildren(CreateNodes, CreateEdges)

SpecCreate == Init /\ [][NextCreate]_vars

\* Creating nodes over the nodes that are there, laying them out and
\* invalidating them.
NextDirty ==
    \/ NewLeaf(DirtyNodes)
    \/ NewWithChildren(DirtyNodes, DirtyEdges)
    \/ MarkDirty(DirtyNodes)
    \/ LayoutWriteBack(DirtyNodes)

SpecDirty == Init /\ [][NextDirty]_vars

\* The operations that change the topology, on nodes no layout pass cleans.
NextTopology ==
    \/ NewLeaf(TopoNodes)
    \/ NewWithChildren(TopoNodes, TopoEdges)
    \/ AddChild(TopoNodes, TopoEdges)
    \/ Clear
    \/ SwapRemove(TopoNodes)
    \/ RemoveChild(TopoNodes)
    \/ RemoveChildAtIndex(TopoNodes, TopoEdges)

SpecTopology == Init /\ [][NextTopology]_vars

\* Linking nodes and removing the edges one by one.
NextUnlink ==
    \/ NewLeaf(UnlinkNodes)
    \/ NewWithChildren(UnlinkNodes, UnlinkEdges)
    \/ AddChild(UnlinkNodes, UnlinkEdges)
    \/ RemoveChild(UnlinkNodes)
    \/ RemoveChildAtIndex(UnlinkNodes, UnlinkEdges)

SpecUnlink == Init /\ [][NextUnlink]_vars

\* Every operation that keeps the forest, a style change being a mark_dirty,
\* with a layout pass that cleans bottom-up.
NextLayout ==
    \/ NewLeaf(LayoutNodes)
    \/ NewWithChildren(LayoutNodes, LayoutEdges)
    \/ AddChild(LayoutNodes, LayoutEdges)
    \/ SwapRemove(LayoutNodes)
    \/ RemoveChild(LayoutNodes)
    \/ RemoveChildAtIndex(LayoutNodes, LayoutEdges)
    \/ MarkDirty(LayoutNodes)
    \/ LayoutWriteBackBottomUp(LayoutNodes)

SpecLayout == Init /\ [][NextLayout]_vars

\* Every operation of the Forest but add_child.
NextPlain ==
    \/ NewLeaf(PlainNodes)
    \/ NewLeafWithMeasure(PlainNodes)
    \/ NewWithChildren(PlainNodes, PlainEdges)
    \/ RemoveChild(PlainNodes)
    \/ RemoveChildAtIndex(PlainNodes, PlainEdges)
    \/ SwapRemove(PlainNodes)
    \/ Clear
    \/ MarkDirty(PlainNodes)

SpecPlain == Init /\ [][NextPlain]_vars

\* The values a Dimension field takes.
Dimension ==
    {Undefined, Auto}
        \cup {Points(p) : p \in 1..MaxPoints}
        \cup {Percent(p) : p \in 1..MaxPoints}
\* The styles the functions of style.rs are called on: the default one with
\* other preferred and minimum sizes, with other minimum and maximum sizes,
\* with another margin, or with another align_self.
FlexStyles ==
    {[FlexboxLayout_default EXCEPT !.size = Size(w, h),
                                   !.min_size = Size(minw, minh)] :
        w \in Dimension, h \in Dimension, minw \in Dimension,
        minh \in Dimension}
    \cup {[FlexboxLayout_default EXCEPT !.min_size = Size(minw, minh),
                                        !.max_size = Size(maxw, maxh)] :
            minw \in Dimension, minh \in Dimension, maxw \in Dimension,
            maxh \in Dimension}
    \cup {[FlexboxLayout_default EXCEPT !.margin = Rect(st, en, to, bo)] :
            st \in Dimension, en \in Dimension, to \in Dimension,
            bo \in Dimension}
    \cup {[FlexboxLayout_default EXCEPT !.align_self = a] : a \in AlignSelf}
\* The styles of the parent handed to align_self.
ParentStyles ==
    {[FlexboxLayout_default EXCEPT !.align_items = a] : a \in AlignItems}

\* The arguments of a call are chosen; nothing was called yet.
InitStyle ==
    /\ nodes = << >>
    /\ children = << >>
    /\ parents = << >>
    /\ live = 0
    /\ call \in {[style |-> s, parent |-> p, direction |-> d,
                   fn |-> "none", ret |-> None] :
                    s \in FlexStyles, p \in ParentStyles, d \in FlexDirection}

\* The function fn is called on the chosen arguments and returns ret.
Called(fn, ret) ==
    /\ call.fn = "none"
    /\ call' = [call EXCEPT !.fn = fn, !.ret = ret]
    /\ UNCHANGED << nodes, children, parents, live >>

IsRow == Called("is_row", is_row(call.direction))
IsColumn == Called("is_column", is_column(call.direction))
IsReverse == Called("is_reverse", is_reverse(call.direction))
MinMainSize == Called("min_main_size", min_main_size(call.style, call.direction))
MaxMainSize == Called("max_main_size", max_main_size(call.style, call.direction))
MainMarginStart ==
    Called("main_margin_start", main_margin_start(call.style, call.direction))
MainMarginEnd ==
    Called("main_margin_end", main_margin_end(call.style, call.direction))
CrossSize == Called("cross_size", cross_size(call.style, call.direction))
MinCrossSize ==
    Called("min_cross_size", min_cross_size(call.style, call.direction))
MaxCrossSize ==
    Called("max_cross_size", max_cross_size(call.style, call.direction))
CrossMarginStart ==
    Called("cross_margin_start", cross_margin_start(call.style, call.direction))
CrossMarginEnd ==
    Called("cross_margin_end", cross_margin_end(call.style, call.direction))
AlignSelfCall == Called("align_self", align_self(call.style, call.parent))

\* The functions of style.rs, each called on every choice of arguments.
NextStyle ==
    \/ IsRow
    \/ IsColumn
    \/ IsReverse
    \/ MinMainSize
    \/ MaxMainSize
    \/ MainMarginStart
    \/ MainMarginEnd
    \/ CrossSize
    \/ MinCrossSize
    \/ MaxCrossSize
    \/ CrossMarginStart
    \/ CrossMarginEnd
    \/ AlignSelfCall

SpecStyle == InitStyle /\ [][NextStyle]_vars

\* ---------------------------------------------------------------- claims
\* The identities of the forest f.
Live(f) == 0..(Len(f.nodes) - 1)
\* The number of entries of the list v equal to x.
Count(v, x) == Cardinality({k \in 1..Len(v) : v[k] = x})
\* x occurs in the list v.
Occurs(v, x) == \E k \in 1..Len(v) : v[k] = x
\* The list adj keeps for identity i; no entries for an identity it does not hold.
ListAt(adj, i) == IF i \in 0..(Len(adj) - 1) THEN At(adj, i) ELSE << >>
\* v and w hold the same entries, each as often.
SameBag(v, w) ==
    /\ Len(v) = Len(w)
    /\ \A k \in 1..Len(v) : Count(v, v[k]) = Count(w, v[k])
\* v with every entry n deleted, and with every entry last written as n.
Struck(v, n) == SelectSeq(v, LAMBDA x : x # n)
Renamed(v, last, n) == [k \in 1..Len(v) |-> IF v[k] = last THEN n ELSE v[k]]
\* Adjacency is symmetric in f.
Symmetric(f) ==
    \A p \in Ids(MaxNodes), c \in Ids(MaxNodes) :
        Occurs(ListAt(f.children, p), c) <=> Occurs(ListAt(f.parents, c), p)

\* C1: in every state reached by completed operations, for every pair of
\* identities (p, c), c occurs in children[p] iff p occurs in parents[c].
C1_AdjacencySymmetry == Symmetric(Cur)

\* What C7 says of a returned removal of one edge parent -> child.
RemovedOne(f, r, parent, child) ==
    /\ Count(At(r.children, parent), child)
         = Count(At(f.children, parent), child) - 1
    /\ Count(At(r.parents, child), parent)
         = Count(At(f.parents, child), parent) - 1
    /\ Len(r.nodes) = Len(f.nodes)
    /\ Len(r.children) = Len(f.children)
    /\ Len(r.parents) = Len(f.parents)
    /\ r.ret = child

\* C7: remove_child and remove_child_at_index remove exactly one occurrence of
\* the edge from children[parent] and one from parents[child], keep the child
\* node in the forest and return the child's identity.
C7_RemovesOneOccurrence ==
    /\ \A parent \in Live(Cur), child \in Live(Cur) :
          LET r == remove_child(Cur, parent, child)
          IN  r.st = "ok" => RemovedOne(Cur, r, parent, child)
    /\ \A parent \in Live(Cur) :
          \A i \in 0..(Len(At(children, parent)) - 1) :
              LET r == remove_child_at_index(Cur, parent, i)
              IN  r.st = "ok" =>
                      RemovedOne(Cur, r, parent, At(At(children, parent), i))

\* What C2 says of swap_remove(n) on f when it returned r and n is not the
\* last identity.
Relocated(f, r, n) ==
    LET last == Len(f.nodes) - 1
    IN  /\ At(r.nodes, n) = At(f.nodes, last)
        /\ SameBag(At(r.children, n),
                   Renamed(Struck(At(f.children, last), n), last, n))
        /\ SameBag(At(r.parents, n),
                   Renamed(Struck(At(f.parents, last), n), last, n))
        /\ \A x \in Live(f) \ {n, last} :
              /\ Occurs(At(f.parents, last), x) =>
                    Count(At(r.children, x), n) = Count(At(f.children, x), last)
              /\ Occurs(At(f.children, last), x) =>
                    Count(At(r.parents, x), n) = Count(At(f.parents, x), last)
        /\ \A i \in Live(r) :
              /\ ~Occurs(At(r.children, i), last)
              /\ ~Occurs(At(r.parents, i), last)

\* C2: swap_remove(n) on a forest of length k > 1 with n # k-1 moves the node
\* of identity k-1 to identity n: record, child list and parent list are at n,
\* every k-1 in the lists of its parents and children is rewritten to n, and
\* no list of the forest contains k-1 afterwards.
C2_RelocatesLast ==
    \A n \in Live(Cur) :
        LET r == swap_remove(Cur, n)
        IN  (Len(nodes) > 1 /\ n # Len(nodes) - 1 /\ r.st = "ok")
                => Relocated(Cur, r, n)

\* What C3 says of swap_remove(n) on f when it returned r.
EdgesStruck(f, r, n) ==
    LET last == Len(f.nodes) - 1
    IN  \A i \in Live(f) \ {n} :
            LET j == IF i = last THEN n ELSE i
            IN  /\ SameBag(At(r.children, j),
                           Renamed(Struck(At(f.children, i), n), last, n))
                /\ SameBag(At(r.parents, j),
                           Renamed(Struck(At(f.parents, i), n), last, n))

\* C3: swap_remove(n) strikes every occurrence of n: each surviving node's
\* child list and parent list equal, as multisets and after renaming the
\* relocated identity, its lists before the call with every n deleted.
C3_StrikesEveryEdge ==
    \A n \in Live(Cur) :
        LET r == swap_remove(Cur, n)
        IN  r.st = "ok" => EdgesStruck(Cur, r, n)

\* The identities reached from those of S along parent lists, S included.
RECURSIVE UpClosure(_, _)
UpClosure(ps, S) ==
    LET T == S \cup UNION {{ListAt(ps, i)[k] : k \in 1..Len(ListAt(ps, i))}
                              : i \in S}
    IN  IF T = S THEN S ELSE UpClosure(ps, T)
\* n and its transitive ancestors in f.
Ancestors(f, n) == UpClosure(f.parents, {n})
\* No node of f is its own ancestor.
AcyclicUp(f) ==
    \A i \in Live(f) :
        i \notin UpClosure(f.parents,
                           {At(f.parents, i)[k] : k \in 1..Len(At(f.parents, i))})
\* The record rec is dirty and holds no cache.
Invalidated(rec) ==
    /\ rec.is_dirty
    /\ rec.main_size_layout_cache = None
    /\ rec.other_layout_cache = None
\* The record rec is clean and holds both caches.
Cached(rec) ==
    /\ ~rec.is_dirty
    /\ rec.main_size_layout_cache # None
    /\ rec.other_layout_cache # None

\* C4: after mark_dirty(n) on a forest whose parent relation is acyclic, n and
\* every transitive ancestor of n, through every parent of every node on the
\* way, is dirty with both caches empty.
C4_MarkDirtyReachesAncestors ==
    AcyclicUp(Cur) =>
        \A n \in Live(Cur) :
            LET r == mark_dirty(Cur, n)
            IN  r.st = "ok" =>
                    \A a \in Ancestors(Cur, n) : Invalidated(At(r.nodes, a))

\* Leaf L has the two parents M and R, and M has the parent R, so that R is
\* reached from L along two paths; M and R are clean and cached, and
\* mark_dirty(L) leaves all three invalidated.
C4_Witness ==
    \E L \in Live(Cur), M \in Live(Cur), R \in Live(Cur) :
        /\ Cardinality({L, M, R}) = 3
        /\ SameBag(At(parents, L), << M, R >>)
        /\ At(parents, M) = << R >>
        /\ At(parents, R) = << >>
        /\ AcyclicUp(Cur)
        /\ \A a \in {M, R} : Cached(At(nodes, a))
        /\ LET r == mark_dirty(Cur, L)
           IN  /\ r.st = "ok"
               /\ \A a \in {L, M, R} : Invalidated(At(r.nodes, a))

\* C5: in every reachable state no node holds a cache while it is dirty.
C5_CachedImpliesClean ==
    \A i \in Live(Cur) :
        (At(nodes, i).main_size_layout_cache # None
            \/ At(nodes, i).other_layout_cache # None) => ~At(nodes, i).is_dirty

\* A node that was laid out and then invalidated, a parent list that names it,
\* and another node that still holds its caches.
C5_Witness ==
    \E i \in Live(Cur), j \in Live(Cur) :
        /\ At(nodes, i).layout = LayoutDone
        /\ Invalidated(At(nodes, i))
        /\ Occurs(At(parents, j), i)
        /\ Cached(At(nodes, j))

\* C6: nodes, children and parents have the same length, the number of nodes
\* created minus the number removed by swap_remove since the last clear.
C6_EqualLengths ==
    /\ Len(nodes) = live
    /\ Len(children) = live
    /\ Len(parents) = live

\* A forest of two linked nodes from which swap_remove takes one slot of each
\* sequence, whichever node it removes.
C6_Witness ==
    /\ live = 2
    /\ EdgeCount(Cur) > 0
    /\ \A n \in Live(Cur) :
          LET r == swap_remove(Cur, n)
          IN  /\ r.st = "ok"
              /\ Len(r.nodes) = 1 /\ Len(r.children) = 1 /\ Len(r.parents) = 1

\* C8: a swap_remove(n) that returns on a forest of length k returns
\* Some(k-1) iff n # k-1 and None iff n = k-1; for k = 1 the three sequences
\* are empty afterwards.
C8_ReturnValue ==
    \A n \in Live(Cur) :
        LET k == Len(nodes)
            r == swap_remove(Cur, n)
        IN  r.st = "ok" =>
                /\ r.ret = Some(k - 1) <=> n # k - 1
                /\ r.ret = None <=> n = k - 1
                /\ k = 1 => (r.nodes = << >> /\ r.children = << >>
                                /\ r.parents = << >>)

\* A forest of two linked nodes: removing the first returns Some(1),
\* removing the last returns None.
C8_Witness ==
    /\ Len(nodes) = 2
    /\ EdgeCount(Cur) > 0
    /\ swap_remove(Cur, 0).st = "ok" /\ swap_remove(Cur, 0).ret = Some(1)
    /\ swap_remove(Cur, 1).st = "ok" /\ swap_remove(Cur, 1).ret = None

\* The forest of scenario 2: leaves A, B, C (0, 1, 2), P = 3 built with
\* new_with_children([A, B]), then add_child(P, C).
Scenario2 ==
    /\ Len(nodes) = 4
    /\ children = << << >>, << >>, << >>, << 0, 1, 2 >> >>
    /\ parents = << << 3 >>, << 3 >>, << 3 >>, << >> >>

\* No list of r contains the identity x.
Unmentioned(r, x) ==
    \A i \in Live(r) :
        ~Occurs(At(r.children, i), x) /\ ~Occurs(At(r.parents, i), x)

\* C9 as stated: in scenario 2, swap_remove(A) returns Some(2), P's child list
\* is then [0, 1] (C renamed to 0, then B), and no list contains 2.
C9_AsStated ==
    Scenario2 =>
        LET r == swap_remove(Cur, 0)
        IN  /\ r.st = "ok"
            /\ r.ret = Some(2)
            /\ \E p \in Live(r) : At(r.children, p) = << 0, 1 >>
            /\ Unmentioned(r, 2)

\* C9 amended: in scenario 2, swap_remove(A) returns Some(3): P, which held the
\* last identity, moves to identity 0 and its child list is then [C, B] =
\* [2, 1]; B and C keep their identities and name 0 as their parent; no list
\* contains the old identity 3.
C9_Scenario3 ==
    Scenario2 =>
        LET r == swap_remove(Cur, 0)
        IN  /\ r.st = "ok"
            /\ r.ret = Some(3)
            /\ At(r.nodes, 0) = At(nodes, 3)
            /\ r.children = << << 2, 1 >>, << >>, << >> >>
            /\ r.parents = << << >>, << 0 >>, << 0 >> >>
            /\ Unmentioned(r, 3)

\* Scenario 2 is reached and swap_remove(A) returns there.
C9_Witness ==
    /\ Scenario2
    /\ swap_remove(Cur, 0).st = "ok"
    /\ swap_remove(Cur, 0).ret = Some(3)

\* In r, the node of identity p and every transitive ancestor of it is dirty
\* with both caches empty.
InvalidatedUp(r, p) == \A a \in Ancestors(r, p) : Invalidated(At(r.nodes, a))

\* C10, the part on add_child, remove_child and remove_child_at_index.
C10_LinkingInvalidates ==
    /\ \A p \in Live(Cur), c \in Live(Cur) :
          /\ LET r == add_child(Cur, p, c)
             IN  r.st = "ok" => InvalidatedUp(r, p)
          /\ LET r == remove_child(Cur, p, c)
             IN  r.st = "ok" => InvalidatedUp(r, p)
    /\ \A p \in Live(Cur) :
          \A i \in 0..(Len(At(children, p)) - 1) :
              LET r == remove_child_at_index(Cur, p, i)
              IN  r.st = "ok" => InvalidatedUp(r, p)

\* C10, the part on swap_remove of a node n of p's child list; p is found at
\* n afterwards when it held the last identity.
C10_RemovalInvalidates ==
    \A n \in Live(Cur), p \in Live(Cur) :
        LET r == swap_remove(Cur, n)
            q == IF p = Len(nodes) - 1 THEN n ELSE p
        IN  (p # n /\ Occurs(At(children, p), n) /\ r.st = "ok")
                => InvalidatedUp(r, q)

\* C10: after any operation that adds or removes a child edge of p, p and
\* every transitive ancestor of p is dirty with both caches empty.
C10_EdgeChangeInvalidates == C10_LinkingInvalidates /\ C10_RemovalInvalidates

\* C11: add_child(parent, child) with both identities valid appends child at
\* the end of children[parent] and parent at the end of parents[child], also
\* when the edge is already there, and leaves parent dirty.
C11_AddChildAppends ==
    \A p \in Live(Cur), c \in Live(Cur) :
        LET r == add_child(Cur, p, c)
        IN  r.st = "ok" =>
                /\ At(r.children, p) = Append(At(children, p), c)
                /\ At(r.parents, c) = Append(At(parents, c), p)
                /\ At(r.nodes, p).is_dirty

\* A clean, cached parent p with children [a, c]: add_child(p, c) links c a
\* second time, after a and the first c, and leaves p dirty.
C11_Witness ==
    \E p \in Live(Cur), a \in Live(Cur), c \in Live(Cur) :
        /\ a # c
        /\ At(children, p) = << a, c >>
        /\ At(parents, c) = << p >>
        /\ Cached(At(nodes, p))
        /\ LET r == add_child(Cur, p, c)
           IN  /\ r.st = "ok"
               /\ At(r.children, p) = << a, c, c >>
               /\ At(r.parents, c) = << p, p >>
               /\ Invalidated(At(r.nodes, p))

\* What C12 says of new_with_children(style, cs) on f when it returned r.
BuiltOver(f, r, cs) ==
    LET id == Len(f.nodes)
    IN  /\ r.ret = id
        /\ At(r.children, id) = cs
        /\ At(r.parents, id) = << >>
        /\ \A c \in Live(f) :
              At(r.parents, c) = At(f.parents, c) \o [k \in 1..Count(cs, c) |-> id]
        /\ \A x \in Live(f) :
              ~Occurs(cs, x) =>
                  /\ At(r.nodes, x) = At(f.nodes, x)
                  /\ At(r.children, x) = At(f.children, x)
                  /\ At(r.parents, x) = At(f.parents, x)

\* C12: new_with_children(style, cs) with every identity of cs valid returns
\* the old length, gives the new node the child list cs and an empty parent
\* list, appends the new identity to the parent list of every node of cs, and
\* leaves the lists and records of every node not in cs as they were.
C12_NewWithChildren ==
    \A style \in Styles, cs \in KidLists(CreateNodes) :
        LET r == new_with_children(Cur, style, cs)
        IN  r.st = "ok" => BuiltOver(Cur, r, cs)

\* Three nodes: a already has a parent, b has none, u is the third one.
\* new_with_children([a, b]) returns 3, lists [a, b], is appended after a's
\* old parent, and u's lists stay as they were.
C12_Witness ==
    /\ Len(nodes) = 3
    /\ \E a \in Live(Cur), b \in Live(Cur), u \in Live(Cur), style \in Styles :
          /\ Cardinality({a, b, u}) = 3
          /\ At(parents, a) = << u >>
          /\ At(parents, b) = << >>
          /\ LET r == new_with_children(Cur, style, << a, b >>)
             IN  /\ r.st = "ok"
                 /\ r.ret = 3
                 /\ At(r.children, 3) = << a, b >>
                 /\ At(r.parents, a) = << u, 3 >>
                 /\ At(r.parents, b) = << 3 >>
                 /\ At(r.children, u) = At(children, u)
                 /\ At(r.parents, u) = At(parents, u)

\* What C13 says of a creation on f that returned r.
CreatedFresh(f, r) ==
    /\ r.ret = Len(f.nodes)
    /\ Len(r.nodes) = Len(f.nodes) + 1
    /\ Invalidated(At(r.nodes, r.ret))
    /\ At(r.parents, r.ret) = << >>

\* Three creations on the empty forest, one of each kind.
CreatedInTurn(style, m) ==
    LET r0 == new_leaf(with_capacity, style)
        r1 == new_leaf_with_measure(r0, style, m)
        r2 == new_with_children(r1, style, << 0, 1 >>)
    IN  r0.ret = 0 /\ r1.ret = 1 /\ r2.ret = 2

\* C13: a node created by new_leaf, new_leaf_with_measure or new_with_children
\* is dirty, holds no cache and has no parents; new_leaf stores no measure
\* function and new_leaf_with_measure the one supplied; the identity returned
\* is the length before the call, so creations on the empty forest return
\* 0, 1, 2, ...
C13_CreatedNodes ==
    \A style \in Styles :
        /\ LET r == new_leaf(Cur, style)
           IN  /\ r.st = "ok"
               /\ CreatedFresh(Cur, r)
               /\ At(r.nodes, r.ret).measure = None
        /\ \A m \in MeasureFuncs :
              /\ LET r == new_leaf_with_measure(Cur, style, m)
                 IN  /\ r.st = "ok"
                     /\ CreatedFresh(Cur, r)
                     /\ At(r.nodes, r.ret).measure = Some(m)
              /\ CreatedInTurn(style, m)
        /\ \A cs \in KidLists(CreateNodes) :
              LET r == new_with_children(Cur, style, cs)
              IN  r.st = "ok" => CreatedFresh(Cur, r)

\* A forest whose only node holds a measure function: each kind of creation
\* returns 1 and the node it adds is dirty, without caches or parents.
C13_Witness ==
    /\ Len(nodes) = 1
    /\ At(nodes, 0).measure # None
    /\ \E style \in Styles, m \in MeasureFuncs :
          LET r == new_leaf(Cur, style)
              q == new_leaf_with_measure(Cur, style, m)
              w == new_with_children(Cur, style, << 0 >>)
          IN  /\ r.ret = 1 /\ Invalidated(At(r.nodes, 1))
              /\ At(r.nodes, 1).measure = None
              /\ q.ret = 1 /\ Invalidated(At(q.nodes, 1))
              /\ At(q.nodes, 1).measure = Some(m)
              /\ w.st = "ok" /\ w.ret = 1 /\ Invalidated(At(w.nodes, 1))
              /\ At(w.parents, 1) = << >>

\* The forests r and q hold the same records and the same adjacency lists.
SameForest(r, q) ==
    /\ r.nodes = q.nodes
    /\ r.children = q.children
    /\ r.parents = q.parents

\* C14: on a forest whose parent relation is acyclic, mark_dirty(n) followed
\* by mark_dirty(n) leaves the records (dirty flags, caches, layout results)
\* and the adjacency lists that a single mark_dirty(n) leaves.
C14_MarkDirtyIdempotent ==
    \A n \in Live(Cur) :
        LET r1 == mark_dirty(Cur, n)
            r2 == mark_dirty(r1, n)
        IN  r1.st = "ok" =>
                \/ r2.st = "ok" /\ SameForest(r2, r1)
                \/ ~AcyclicUp(Cur)

\* A clean, cached node n under a clean, cached parent: the first
\* mark_dirty(n) changes both records, the second changes nothing.
C14_Witness ==
    \E n \in Live(Cur), a \in Live(Cur) :
        /\ a # n
        /\ Occurs(At(parents, n), a)
        /\ Cached(At(nodes, n)) /\ Cached(At(nodes, a))
        /\ LET r1 == mark_dirty(Cur, n)
               r2 == mark_dirty(r1, n)
           IN  /\ r1.st = "ok" /\ r2.st = "ok"
               /\ Invalidated(At(r1.nodes, n)) /\ Invalidated(At(r1.nodes, a))
               /\ r1.nodes # nodes
               /\ SameForest(r2, r1)

\* C15: mark_dirty(n) changes only the dirty flag and the two caches of n and
\* of n's transitive ancestors: every other record is as before, every
\* record keeps its layout result, style and measure function, and the child
\* and parent lists are as before.
C15_MarkDirtyFrame ==
    \A n \in Live(Cur) :
        LET r == mark_dirty(Cur, n)
        IN  r.st = "ok" =>
                /\ r.children = children
                /\ r.parents = parents
                /\ Len(r.nodes) = Len(nodes)
                /\ \A x \in Live(Cur) :
                      /\ At(r.nodes, x).layout = At(nodes, x).layout
                      /\ At(r.nodes, x).style = At(nodes, x).style
                      /\ At(r.nodes, x).measure = At(nodes, x).measure
                      /\ x \notin Ancestors(Cur, n) =>
                            At(r.nodes, x) = At(nodes, x)

\* A laid out node n with a laid out child u, both clean and cached:
\* mark_dirty(n) invalidates n, leaves n's layout result in place and leaves
\* u, which is no ancestor of n, clean and cached.
C15_Witness ==
    \E n \in Live(Cur), u \in Live(Cur) :
        /\ u # n
        /\ Occurs(At(children, n), u)
        /\ u \notin Ancestors(Cur, n)
        /\ Cached(At(nodes, n)) /\ At(nodes, n).layout = LayoutDone
        /\ Cached(At(nodes, u))
        /\ LET r == mark_dirty(Cur, n)
           IN  /\ r.st = "ok"
               /\ Invalidated(At(r.nodes, n))
               /\ At(r.nodes, n).layout = LayoutDone
               /\ At(r.nodes, u) = At(nodes, u)

\* The call that left r on f ended in a fault and f is as it was.
FaultedUnchanged(f, r) == r.st # "ok" /\ SameForest(r, f)

\* C16: remove_child_at_index(parent, i) with i >= the length of
\* children[parent], and remove_child(parent, child) with child not in
\* children[parent], end in a fault and leave the records, child lists and
\* parent lists as they were.
C16_BadRemovalFaults ==
    \A parent \in Live(Cur) :
        /\ \A i \in 0..(MaxEdges + 1) :
              i >= Len(At(children, parent)) =>
                  FaultedUnchanged(Cur, remove_child_at_index(Cur, parent, i))
        /\ \A child \in Ids(MaxNodes) :
              ~Occurs(At(children, parent), child) =>
                  FaultedUnchanged(Cur, remove_child(Cur, parent, child))

\* A clean, cached parent with one child: the index 1, equal to the child
\* count, and the child identity parent itself, which it does not list, both
\* fault and leave the forest as it was.
C16_Witness ==
    \E parent \in Live(Cur) :
        /\ Len(At(children, parent)) = 1
        /\ ~Occurs(At(children, parent), parent)
        /\ Cached(At(nodes, parent))
        /\ FaultedUnchanged(Cur, remove_child_at_index(Cur, parent, 1))
        /\ FaultedUnchanged(Cur, remove_child(Cur, parent, parent))

\* If the call that left r on the current forest panicked, the forest is as
\* it was before the call.
NothingWrittenAtPanic(r) == r.st = "panic" => SameForest(r, Cur)

\* C17: no operation writes to the forest and then faults: for every operation
\* and all arguments, known identities or not, the records, child lists and
\* parent lists at a panic are those before the call.
C17_NoPartialMutation ==
    /\ \A a \in Ids(MaxNodes), b \in Ids(MaxNodes) :
          /\ NothingWrittenAtPanic(add_child(Cur, a, b))
          /\ NothingWrittenAtPanic(remove_child(Cur, a, b))
          /\ NothingWrittenAtPanic(swap_remove(Cur, a))
          /\ NothingWrittenAtPanic(mark_dirty(Cur, a))
    /\ \A a \in Ids(MaxNodes), i \in 0..MaxEdges :
          NothingWrittenAtPanic(remove_child_at_index(Cur, a, i))
    /\ \A style \in Styles, cs \in KidLists(MaxNodes) :
          NothingWrittenAtPanic(new_with_children(Cur, style, cs))

\* The identity x names no node of the current forest.
Unknown(x) == x >= Len(nodes)

\* C18: a call of add_child, remove_child, remove_child_at_index, swap_remove,
\* mark_dirty or new_with_children that names an identity >= the current
\* length, and a remove_child of a child the parent does not list, ends in a
\* fault and never returns.
C18_ViolationsFault ==
    /\ \A a \in Ids(TopoNodes), b \in Ids(TopoNodes) :
          (Unknown(a) \/ Unknown(b)) =>
              /\ add_child(Cur, a, b).st # "ok"
              /\ remove_child(Cur, a, b).st # "ok"
    /\ \A a \in Ids(TopoNodes) :
          Unknown(a) =>
              /\ swap_remove(Cur, a).st # "ok"
              /\ mark_dirty(Cur, a).st # "ok"
              /\ \A i \in 0..TopoEdges :
                    remove_child_at_index(Cur, a, i).st # "ok"
    /\ \A style \in Styles, cs \in KidLists(TopoNodes) :
          (\E k \in 1..Len(cs) : Unknown(cs[k])) =>
              new_with_children(Cur, style, cs).st # "ok"
    /\ \A p \in Live(Cur), c \in Live(Cur) :
          ~Occurs(At(children, p), c) => remove_child(Cur, p, c).st # "ok"

\* Two nodes, p listing c as its child: every operation faults on the unknown
\* identity 2, in either argument place and after a known child, and
\* remove_child faults on the edge from c to p, which does not exist.
C18_Witness ==
    /\ Len(nodes) = 2
    /\ \E p \in Live(Cur), c \in Live(Cur), style \in Styles :
          /\ p # c
          /\ At(children, p) = << c >>
          /\ At(children, c) = << >>
          /\ add_child(Cur, p, 2).st = "panic"
          /\ add_child(Cur, 2, c).st = "panic"
          /\ remove_child(Cur, p, 2).st = "panic"
          /\ remove_child(Cur, 2, c).st = "panic"
          /\ remove_child_at_index(Cur, 2, 0).st = "panic"
          /\ swap_remove(Cur, 2).st = "panic"
          /\ mark_dirty(Cur, 2).st = "panic"
          /\ new_with_children(Cur, style, << c, 2 >>).st = "panic"
          /\ remove_child(Cur, c, p).st = "panic"

\* C19: mark_dirty(n) returns for every node n of a forest whose parent
\* relation is acyclic, also when a node is reached from n along several
\* parent paths.
C19_MarkDirtyTerminates ==
    \A n \in Live(Cur) :
        \/ mark_dirty(Cur, n).st = "ok"
        \/ ~AcyclicUp(Cur)

\* R is reached from L directly and through M: mark_dirty(L) returns, while
\* on the forest in which R is also a child of L, a cycle, it does not.
C19_Witness ==
    \E L \in Live(Cur), M \in Live(Cur), R \in Live(Cur) :
        /\ Cardinality({L, M, R}) = 3
        /\ Occurs(At(parents, L), M) /\ Occurs(At(parents, L), R)
        /\ Occurs(At(parents, M), R)
        /\ AcyclicUp(Cur)
        /\ mark_dirty(Cur, L).st = "ok"
        /\ LET cyc == Forest(nodes,
                             [children EXCEPT ![L + 1] = Push(@, R)],
                             [parents EXCEPT ![R + 1] = Push(@, L)])
           IN  /\ ~AcyclicUp(cyc)
               /\ mark_dirty(cyc, L).st = "overflow"

\* C20: clear() leaves nodes, children and parents of length 0 in any state,
\* and the forest then behaves as a fresh one: the next node created gets
\* identity 0 and has no parents.
C20_ClearEmpties ==
    LET r == clear(Cur)
    IN  /\ r.st = "ok"
        /\ Len(r.nodes) = 0 /\ Len(r.children) = 0 /\ Len(r.parents) = 0
        /\ \A style \in Styles :
              /\ new_leaf(r, style) = new_leaf(with_capacity, style)
              /\ new_leaf(r, style).ret = 0
              /\ new_leaf(r, style).parents = << << >> >>
              /\ new_with_children(r, style, << >>).ret = 0
              /\ new_with_children(r, style, << >>).parents = << << >> >>
              /\ \A m \in MeasureFuncs :
                    /\ new_leaf_with_measure(r, style, m).ret = 0
                    /\ new_leaf_with_measure(r, style, m).parents = << << >> >>

\* Two linked nodes, one of them clean and cached: clear empties the three
\* sequences and the next leaf is node 0, dirty and without parents.
C20_Witness ==
    /\ Len(nodes) = 2
    /\ EdgeCount(Cur) > 0
    /\ \E i \in Live(Cur) : Cached(At(nodes, i))
    /\ \E i \in Live(Cur) : At(parents, i) # << >>
    /\ LET r == clear(Cur)
       IN  /\ r.nodes = << >> /\ r.children = << >> /\ r.parents = << >>
           /\ \E style \in Styles :
                 LET q == new_leaf(r, style)
                 IN  /\ q.ret = 0
                     /\ Invalidated(At(q.nodes, 0))
                     /\ At(q.parents, 0) = << >>

\* C21: align_self(parent) returns the node's own align_self when that is not
\* Auto, and the AlignSelf variant named as parent.align_items when it is
\* Auto; it never returns AlignSelf::Auto.
C21_AlignSelfResolves ==
    call.fn = "align_self" =>
        /\ call.style.align_self # << "AlignSelf", "Auto" >> =>
              call.ret = call.style.align_self
        /\ call.style.align_self = << "AlignSelf", "Auto" >> =>
              /\ call.ret[1] = "AlignSelf"
              /\ call.ret[2] = call.parent.align_items[2]
        /\ call.ret \in AlignSelf
        /\ call.ret # << "AlignSelf", "Auto" >>

\* A node with align_self Auto under a parent with align_items Center:
\* align_self returned AlignSelf::Center.
C21_Witness ==
    /\ call.fn = "align_self"
    /\ call.style.align_self = << "AlignSelf", "Auto" >>
    /\ call.parent.align_items = << "AlignItems", "Center" >>
    /\ call.ret = << "AlignSelf", "Center" >>

\* The direction d is Row or RowReverse.
RowLike(d) == d[2] \in {"Row", "RowReverse"}

\* C22: for each FlexDirection exactly one of is_row and is_column holds and
\* is_reverse holds for RowReverse and ColumnReverse only; min_main_size,
\* max_main_size, main_margin_start and main_margin_end return the width,
\* start or end component for Row and RowReverse and the height, top or bottom
\* component for Column and ColumnReverse, and cross_size, min_cross_size,
\* max_cross_size, cross_margin_start and cross_margin_end the other one.
C22_AxisSelectors ==
    LET d == call.direction
        style == call.style
    IN  call.fn # "none" =>
        /\ is_row(d) # is_column(d)
        /\ call.fn = "is_row" => call.ret = RowLike(d)
        /\ call.fn = "is_column" => call.ret = ~RowLike(d)
        /\ call.fn = "is_reverse" =>
              call.ret = (d[2] \in {"RowReverse", "ColumnReverse"})
        /\ call.fn = "min_main_size" =>
              call.ret = IF RowLike(d) THEN style.min_size.width
                         ELSE style.min_size.height
        /\ call.fn = "max_main_size" =>
              call.ret = IF RowLike(d) THEN style.max_size.width
                         ELSE style.max_size.height
        /\ call.fn = "main_margin_start" =>
              call.ret = IF RowLike(d) THEN style.margin.start
                         ELSE style.margin.top
        /\ call.fn = "main_margin_end" =>
              call.ret = IF RowLike(d) THEN style.margin.end
                         ELSE style.margin.bottom
        /\ call.fn = "cross_size" =>
              call.ret = IF RowLike(d) THEN style.size.height
                         ELSE style.size.width
        /\ call.fn = "min_cross_size" =>
              call.ret = IF RowLike(d) THEN style.min_size.height
                         ELSE style.min_size.width
        /\ call.fn = "max_cross_size" =>
              call.ret = IF RowLike(d) THEN style.max_size.height
                         ELSE style.max_size.width
        /\ call.fn = "cross_margin_start" =>
              call.ret = IF RowLike(d) THEN style.margin.top
                         ELSE style.margin.start
        /\ call.fn = "cross_margin_end" =>
              call.ret = IF RowLike(d) THEN style.margin.bottom
                         ELSE style.margin.end

\* A style whose minimum width is one percent and whose minimum height is
\* Undefined: min_cross_size(ColumnReverse) returned the width.
C22_Witness ==
    /\ call.fn = "min_cross_size"
    /\ call.direction = << "FlexDirection", "ColumnReverse" >>
    /\ call.style.min_size = Size(Percent(1), Undefined)
    /\ call.style.max_size = Size(Auto, Points(1))
    /\ call.ret = Percent(1)

\* What C23 says of swap_remove(n) on f when it returned r: the child list of
\* every surviving node is its list before the call with every n deleted and
\* the relocated identity renamed, entry by entry in the same order.
OrderKept(f, r, n) ==
    LET last == Len(f.nodes) - 1
    IN  \A i \in Live(f) \ {n} :
            LET j == IF i = last THEN n ELSE i
            IN  At(r.children, j)
                    = Renamed(Struck(At(f.children, i), n), last, n)

\* C23: swap_remove(n) preserves the flex item order: in the child list of
\* every surviving parent the surviving children appear, after renaming, in
\* the same relative order as before the call.
C23_SwapRemoveKeepsOrder ==
    \A n \in Live(Cur) :
        LET r == swap_remove(Cur, n)
        IN  r.st = "ok" => OrderKept(Cur, r, n)

\* The list v without the entry at position i, the others in their order.
Without(v, i) ==
    [k \in 1..(Len(v) - 1) |-> IF k <= i THEN v[k] ELSE v[k + 1]]
\* The smallest position of x in v.
FirstAt(v, x) ==
    CHOOSE i \in 0..(Len(v) - 1) :
        At(v, i) = x /\ \A j \in 0..(i - 1) : At(v, j) # x

\* C24: remove_child(parent, child) behaves exactly like
\* remove_child_at_index(parent, i) for the smallest i with
\* children[parent][i] = child, and both removals keep the remaining entries
\* of children[parent] in their previous relative order.
C24_RemovesFirstMatch ==
    /\ \A parent \in Live(Cur), child \in Live(Cur) :
          Occurs(At(children, parent), child) =>
              LET i == FirstAt(At(children, parent), child)
                  r == remove_child(Cur, parent, child)
              IN  /\ r = remove_child_at_index(Cur, parent, i)
                  /\ r.st = "ok" =>
                        At(r.children, parent)
                            = Without(At(children, parent), i)
    /\ \A parent \in Live(Cur) :
          \A i \in 0..(Len(At(children, parent)) - 1) :
              LET r == remove_child_at_index(Cur, parent, i)
              IN  r.st = "ok" =>
                      At(r.children, parent)
                          = Without(At(children, parent), i)

\* A parent lists a child, another child, and the first child again:
\* remove_child takes the first entry, and the other child comes first.
C24_Witness ==
    /\ Len(nodes) = 3
    /\ At(children, 2) = << 0, 1, 0 >>
    /\ remove_child(Cur, 2, 0).st = "ok"
    /\ At(remove_child(Cur, 2, 0).children, 2) = << 1, 0 >>
    /\ At(remove_child_at_index(Cur, 2, 2).children, 2) = << 0, 1 >>

\* The record now is the record old, possibly invalidated: it is not cleaner,
\* holds no cache that old did not hold, and has old's layout result.
NotCleaned(old, now) ==
    /\ old.is_dirty => now.is_dirty
    /\ now.main_size_layout_cache \in {old.main_size_layout_cache, None}
    /\ now.other_layout_cache \in {old.other_layout_cache, None}
    /\ now.layout = old.layout
\* Every node of f is in r under its identity and is not cleaned.
NoneCleaned(f, r) ==
    /\ Len(r.nodes) >= Len(f.nodes)
    /\ \A i \in Live(f) : NotCleaned(At(f.nodes, i), At(r.nodes, i))
\* Every node of f but n is in r, the last one under the identity n, and is
\* not cleaned.
NoneCleanedBut(f, r, n) ==
    /\ Len(r.nodes) = Len(f.nodes) - 1
    /\ \A i \in Live(f) \ {n} :
          NotCleaned(At(f.nodes, i),
                     At(r.nodes, IF i = Len(f.nodes) - 1 THEN n ELSE i))

\* The child lists of up to MaxKids identities of f.
LiveKidLists(f) == UNION {[1..k -> Live(f)] : k \in 0..MaxKids}

\* C25: no Forest operation cleans a node: across new_leaf,
\* new_leaf_with_measure, new_with_children, add_child, remove_child,
\* remove_child_at_index, swap_remove and mark_dirty, every surviving node,
\* followed through swap_remove's renaming, has is_dirty changing at most from
\* false to true, each cache at most from present to empty, and its layout
\* result unchanged.
C25_NoOperationCleans ==
    /\ \A style \in Styles :
          /\ NoneCleaned(Cur, new_leaf(Cur, style))
          /\ \A m \in MeasureFuncs :
                NoneCleaned(Cur, new_leaf_with_measure(Cur, style, m))
          /\ \A kids \in LiveKidLists(Cur) :
                LET r == new_with_children(Cur, style, kids)
                IN  r.st = "ok" /\ NoneCleaned(Cur, r)
    /\ \A a \in Live(Cur) :
          /\ LET r == mark_dirty(Cur, a)
             IN  r.st = "ok" => NoneCleaned(Cur, r)
          /\ LET r == swap_remove(Cur, a)
             IN  r.st = "ok" => NoneCleanedBut(Cur, r, a)
          /\ \A b \in Live(Cur) :
                /\ LET r == add_child(Cur, a, b)
                   IN  r.st = "ok" => NoneCleaned(Cur, r)
                /\ LET r == remove_child(Cur, a, b)
                   IN  r.st = "ok" => NoneCleaned(Cur, r)
          /\ \A i \in 0..(Len(At(children, a)) - 1) :
                LET r == remove_child_at_index(Cur, a, i)
                IN  r.st = "ok" => NoneCleaned(Cur, r)

\* Node 1 is clean with both caches and its child 0 is dirty:
\* swap_remove(0) moves the record of node 1 to identity 0 as it is, and
\* mark_dirty(0) leaves node 1 dirty without caches, its layout result kept.
C25_Witness ==
    /\ Len(nodes) = 2
    /\ At(nodes, 0).is_dirty
    /\ Cached(At(nodes, 1))
    /\ At(children, 1) = << 0 >>
    /\ swap_remove(Cur, 0).st = "ok"
    /\ At(swap_remove(Cur, 0).nodes, 0) = At(nodes, 1)
    /\ mark_dirty(Cur, 0).st = "ok"
    /\ Invalidated(At(mark_dirty(Cur, 0).nodes, 1))
    /\ At(mark_dirty(Cur, 0).nodes, 1).layout = LayoutDone

\* In f a cycle of the parent relation is reached upward from x: x or an
\* ancestor of x is its own ancestor.
CycleAbove(f, x) ==
    \E y \in Ancestors(f, x) :
        y \in UpClosure(f.parents,
                        {At(f.parents, y)[k] : k \in 1..Len(At(f.parents, y))})

\* C26: add_child does not reject an edge that closes a cycle, add_child(n, n)
\* included: the edge is written to both lists, and once a cycle of the parent
\* relation is reached upward from a node, mark_dirty on that node, the one
\* issued by that add_child included, never returns.
C26_CycleNeverTerminates ==
    \A parent \in Live(Cur), child \in Live(Cur) :
        child \in Ancestors(Cur, parent) =>
            LET r == add_child(Cur, parent, child)
            IN  /\ r.st = "overflow"
                /\ At(r.children, parent) = Push(At(children, parent), child)
                /\ r.parents
                     = [parents EXCEPT ![child + 1] = Push(@, parent)]
                /\ CycleAbove(r, parent)
                /\ \A x \in Live(r) :
                      CycleAbove(r, x) <=> mark_dirty(r, x).st = "overflow"

\* A chain 0 <- 1 <- 2 of three nodes: add_child(0, 2) closes a cycle through
\* all three and does not return, no more than add_child(1, 1) does.
C26_Witness ==
    /\ Len(nodes) = 3
    /\ At(parents, 0) = << 1 >>
    /\ At(parents, 1) = << 2 >>
    /\ At(parents, 2) = << >>
    /\ add_child(Cur, 0, 2).st = "overflow"
    /\ At(add_child(Cur, 0, 2).parents, 2) = << 0 >>
    /\ At(add_child(Cur, 0, 2).children, 0) = Push(At(children, 0), 2)
    /\ add_child(Cur, 1, 1).st = "overflow"
    /\ mark_dirty(add_child(Cur, 0, 2), 1).st = "overflow"

\* The records old and now are of one node: the style and the measure function
\* it was created with and its layout result are the same.
SameNode(old, now) ==
    /\ now.style = old.style
    /\ now.measure = old.measure
    /\ now.layout = old.layout
\* Every node of f is in r under the identity it has in f.
IdentitiesKept(f, r) ==
    /\ Len(r.nodes) >= Len(f.nodes)
    /\ \A i \in Live(f) : SameNode(At(f.nodes, i), At(r.nodes, i))
\* What C27 says of swap_remove(n) on f when it returned r: a node that is
\* neither n nor the last one is where it was, with its record and with its
\* lists but for the struck and the renamed entries: the child list in its
\* order, the parent list, whose order carries no meaning, as a multiset.
OthersKept(f, r, n) ==
    LET last == Len(f.nodes) - 1
    IN  /\ Len(r.nodes) = Len(f.nodes) - 1
        /\ \A i \in Live(f) \ {n, last} :
              /\ At(r.nodes, i) = At(f.nodes, i)
              /\ At(r.children, i)
                   = Renamed(Struck(At(f.children, i), n), last, n)
              /\ SameBag(At(r.parents, i),
                         Renamed(Struck(At(f.parents, i), n), last, n))
\* The same with the lists compared as multisets.
OthersKeptUnordered(f, r, n) ==
    LET last == Len(f.nodes) - 1
    IN  /\ Len(r.nodes) = Len(f.nodes) - 1
        /\ \A i \in Live(f) \ {n, last} :
              /\ At(r.nodes, i) = At(f.nodes, i)
              /\ SameBag(At(r.children, i),
                         Renamed(Struck(At(f.children, i), n), last, n))
              /\ SameBag(At(r.parents, i),
                         Renamed(Struck(At(f.parents, i), n), last, n))

\* C27, the part on the operations other than swap_remove: add_child,
\* remove_child, remove_child_at_index, mark_dirty and the creations leave
\* every existing node under its identity.
C27_OthersKeepIdentities ==
    /\ \A style \in Styles :
          /\ IdentitiesKept(Cur, new_leaf(Cur, style))
          /\ \A m \in MeasureFuncs :
                IdentitiesKept(Cur, new_leaf_with_measure(Cur, style, m))
          /\ \A kids \in KidLists(CompactNodes) :
                LET r == new_with_children(Cur, style, kids)
                IN  r.st = "ok" => IdentitiesKept(Cur, r)
    /\ \A a \in Live(Cur) :
          /\ LET r == mark_dirty(Cur, a)
             IN  r.st = "ok" => IdentitiesKept(Cur, r)
          /\ \A b \in Live(Cur) :
                /\ LET r == add_child(Cur, a, b)
                   IN  r.st = "ok" => IdentitiesKept(Cur, r)
                /\ LET r == remove_child(Cur, a, b)
                   IN  r.st = "ok" => IdentitiesKept(Cur, r)
          /\ \A i \in 0..(Len(At(children, a)) - 1) :
                LET r == remove_child_at_index(Cur, a, i)
                IN  r.st = "ok" => IdentitiesKept(Cur, r)

\* C27, the part on swap_remove.
C27_SwapRemoveKeepsOthers ==
    \A n \in Live(Cur) :
        LET r == swap_remove(Cur, n)
        IN  r.st = "ok" => OthersKept(Cur, r, n)

\* C27: swap_remove(n) changes the identity of at most one surviving node:
\* every node other than the removed one and the one that held the last
\* identity keeps its identity, its record and, apart from struck or renamed
\* entries, its adjacency lists; add_child, remove_child,
\* remove_child_at_index, mark_dirty and the creations never change the
\* identity of an existing node.
C27_IdentitiesStable == C27_SwapRemoveKeepsOthers /\ C27_OthersKeepIdentities

\* C27 with the lists of the other nodes compared as multisets.
C27_Unordered ==
    /\ C27_OthersKeepIdentities
    /\ \A n \in Live(Cur) :
          LET r == swap_remove(Cur, n)
          IN  r.st = "ok" => OthersKeptUnordered(Cur, r, n)

\* Every identity stored in a list of f names a node of f.
NoDangling(f) ==
    \A i \in Live(f) :
        /\ \A k \in 1..Len(At(f.children, i)) :
              At(f.children, i)[k] < Len(f.nodes)
        /\ \A k \in 1..Len(At(f.parents, i)) :
              At(f.parents, i)[k] < Len(f.nodes)

\* C28: no dangling identities: in every state reached by completed Forest
\* operations, duplicate edges allowed, every identity stored in a child list
\* or a parent list is smaller than the current forest length.
C28_NoDanglingIdentity == NoDangling(Cur)

\* The record rec is clean or holds a cache.
Trusted(rec) ==
    \/ ~rec.is_dirty
    \/ rec.main_size_layout_cache # None
    \/ rec.other_layout_cache # None

\* C29: no stale cache above a dirty node: with a layout write-back that sets
\* a node clean and fills its caches only when every node in its child list is
\* clean, and style changes that call mark_dirty, in every reachable state a
\* node that is clean or holds a cache has no dirty node in its child list.
C29_NoStaleCacheAboveDirty ==
    \A p \in Live(Cur) :
        Trusted(At(nodes, p)) =>
            \A k \in 1..Len(At(children, p)) :
                LET c == At(children, p)[k]
                IN  c < Len(nodes) => ~At(nodes, c).is_dirty

\* No node of f is its own descendant along the child lists.
AcyclicDown(f) ==
    \A i \in Live(f) :
        i \notin UpClosure(f.children,
                           {At(f.children, i)[k] : k \in 1..Len(At(f.children, i))})

\* C30: only add_child can introduce a cycle: in a forest built with new_leaf,
\* new_leaf_with_measure, new_with_children, remove_child,
\* remove_child_at_index, swap_remove, clear and mark_dirty only, no node is
\* its own descendant along the child lists nor its own ancestor along the
\* parent lists.
C30_NoCycleWithoutAddChild == AcyclicDown(Cur) /\ AcyclicUp(Cur)

====
